---- MODULE Spec2Model ----
(***************************************************************************)
(* CDC-ACM virtual serial port (vx-cdc-acm): the byte-stream transport of  *)
(* vx-sf-arch.c (sfgetc / sfputc / sfsync) and the enumeration glue of     *)
(* usb-cdc-acm.c (descriptors, set-configuration callback, class control   *)
(* callback, main's loopback test loop), running against a USB host and    *)
(* the libopencm3 packet primitives.                                       *)
(*                                                                         *)
(* The device code is single threaded.  Its position is pc; each action    *)
(* below is one basic block of one function, ending at the next call of a  *)
(* driver primitive (usbd_poll, usbd_ep_read_packet, usbd_ep_write_packet) *)
(* or at the function's return.  The host acts between those steps.        *)
(***************************************************************************)
EXTENDS Integers, Sequences, FiniteSets, TLC

(***************************************************************************)
(* Program constants                                                       *)
(***************************************************************************)
\* usb-cdc-acm.c: "usb cdcacm device configuration"
USB_CDCACM_DATA_IN_ENDPOINT_ADDRESS == 129
USB_CDCACM_DATA_OUT_ENDPOINT_ADDRESS == 1
USB_CDCACM_COMMUNICATION_IN_ENDPOINT_ADDRESS == 130
USB_CDCACM_PACKET_SIZE == 64
USB_CDCACM_CONTROL_INTERFACE_NUMBER == 0
USB_CDCACM_DATA_INTERFACE_NUMBER == 1

\* definitions.h: "common constants", the enumeration vx-sf-arch.c is compiled
\* with (usb-cdc-acm.c does not include definitions.h; it has its own)
COMMON_USB_CDCACM_DATA_IN_ENDPOINT_ADDRESS == 129
COMMON_USB_CDCACM_DATA_OUT_ENDPOINT_ADDRESS == 1
COMMON_USB_CDCACM_PACKET_SIZE == 64

USB_ENDPOINT_ATTR_BULK == 2
USB_ENDPOINT_ATTR_INTERRUPT == 3

\* libopencm3 request-type bit fields used when the class handler is registered
USB_REQ_TYPE_STANDARD == 0
USB_REQ_TYPE_INTERFACE == 1
USB_REQ_TYPE_TYPE == 96
USB_REQ_TYPE_RECIPIENT == 31

USBD_REQ_HANDLED == 1
USBD_REQ_NEXT_CALLBACK == 2

\* sizeof inbuf
INBUF_SIZE == COMMON_USB_CDCACM_PACKET_SIZE

\* sizeof outbuf, declared without the "- 1"
OUTBUF_SIZE_full_packet == COMMON_USB_CDCACM_PACKET_SIZE

\* sizeof outbuf: uint8_t outbuf[USB_CDCACM_PACKET_SIZE - 1]
OUTBUF_SIZE == COMMON_USB_CDCACM_PACKET_SIZE - 1

\* sizeof buf in main: char buf[64]
MAIN_BUF_SIZE == 64

\* ">>>"
MAIN_PROMPT == <<62, 62, 62>>

(***************************************************************************)
(* usb-cdc-acm.c: the descriptors (the fields that name interfaces and     *)
(* endpoints)                                                              *)
(***************************************************************************)
usb_cdcacm_communication_endpoint ==
    << [bEndpointAddress |-> USB_CDCACM_COMMUNICATION_IN_ENDPOINT_ADDRESS,
        bmAttributes |-> USB_ENDPOINT_ATTR_INTERRUPT,
        wMaxPacketSize |-> USB_CDCACM_PACKET_SIZE] >>

usb_cdcacm_data_endpoints ==
    << [bEndpointAddress |-> USB_CDCACM_DATA_IN_ENDPOINT_ADDRESS,
        bmAttributes |-> USB_ENDPOINT_ATTR_BULK,
        wMaxPacketSize |-> USB_CDCACM_PACKET_SIZE],
       [bEndpointAddress |-> USB_CDCACM_DATA_OUT_ENDPOINT_ADDRESS,
        bmAttributes |-> USB_ENDPOINT_ATTR_BULK,
        wMaxPacketSize |-> USB_CDCACM_PACKET_SIZE] >>

\* the Union descriptor naming the Communications interface as subordinate
usb_cdcacm_functional_descriptors_self_union ==
    [ acm |-> [bmCapabilities |-> 0],
      u |-> [bControlInterface |-> USB_CDCACM_CONTROL_INTERFACE_NUMBER,
             bSubordinateInterface0 |-> USB_CDCACM_CONTROL_INTERFACE_NUMBER],
      c |-> [bmCapabilities |-> 0,
             bDataInterface |-> USB_CDCACM_DATA_INTERFACE_NUMBER] ]

usb_cdcacm_functional_descriptors ==
    [ acm |-> [bmCapabilities |-> 0],
      u |-> [bControlInterface |-> USB_CDCACM_CONTROL_INTERFACE_NUMBER,
             bSubordinateInterface0 |-> USB_CDCACM_DATA_INTERFACE_NUMBER],
      c |-> [bmCapabilities |-> 0,
             bDataInterface |-> USB_CDCACM_DATA_INTERFACE_NUMBER] ]

cdcacm_communications_interface ==
    [ bInterfaceNumber |-> USB_CDCACM_CONTROL_INTERFACE_NUMBER,
      bNumEndpoints |-> 1,
      endpoint |-> usb_cdcacm_communication_endpoint,
      extra |-> usb_cdcacm_functional_descriptors ]

cdcacm_data_interface ==
    [ bInterfaceNumber |-> USB_CDCACM_DATA_INTERFACE_NUMBER,
      bNumEndpoints |-> 2,
      endpoint |-> usb_cdcacm_data_endpoints ]

usb_interfaces ==
    << [num_altsetting |-> 1, altsetting |-> cdcacm_communications_interface],
       [num_altsetting |-> 1, altsetting |-> cdcacm_data_interface] >>

usb_config_descriptor ==
    [ bNumInterfaces |-> 2,
      bConfigurationValue |-> 1,
      interface |-> usb_interfaces ]

\* the endpoints the host finds in the descriptors: the bulk pipes it moves the
\* serial data over, and the notification pipe
BulkInDescriptor == usb_cdcacm_data_endpoints[1]
BulkOutDescriptor == usb_cdcacm_data_endpoints[2]
NotificationDescriptor == usb_cdcacm_communication_endpoint[1]

(***************************************************************************)
(* Bounds of the model                                                     *)
(***************************************************************************)
\* calls of sfputc made by a writing application
MaxPutc == 64
\* calls of sfgetc made by a reading application
MaxGetc == 66
\* calls of each of sfputc, sfgetc made by an application that does both, or
\* of sfgetc in a run with control requests, and packets the host sends to it
MaxMixed == 2
\* explicit calls of sfsync
MaxSync == 1
\* packets the host sends to bulk-OUT
MaxHostPackets == 3
\* the host sends packets of 0..MaxShortLen bytes, and of 63 and 64 bytes
MaxShortLen == 3
\* control requests (after the first SET_CONFIGURATION) the host issues
MaxCtrlRequests == 1

VARIABLES
    is_usb_device_configured,  \* usb-cdc-acm.c: volatile static bool
    ep_setup,                  \* endpoints set up with the driver (usbd_ep_setup)
    control_callbacks,         \* handlers registered (usbd_register_control_callback)
    inbuf, idx, inbuf_len,     \* sfgetc's statics
    outbuf, outbuf_idx,        \* output buffer and write cursor
    pc,                        \* where the device code is
    op,                        \* the stream call the application is in
    epOut,                     \* packet waiting in the bulk-OUT endpoint, or NoPacket
    epIn,                      \* packet waiting in the bulk-IN endpoint, or NoPacket
    ctrlPending,               \* control transfer waiting to be serviced by usbd_poll
    ctrlReply,                 \* who answered the last control request, and how
    written,                   \* bytes passed to sfputc so far
    hostIn,                    \* bytes the host has taken from bulk-IN so far
    got,                       \* bytes returned by sfgetc so far
    hostSent,                  \* <<packets, bytes>> the host has sent to bulk-OUT
    syncCalls,                 \* explicit sfsync calls so far
    ctrlCount,                 \* control requests issued so far
    workload,                  \* what the application does in this run
    main_buf, main_i,          \* main's locals: char buf[64]; int i
    rxPackets,                 \* packets main has read from bulk-OUT
    txPackets                  \* packets bulk-IN has accepted from main

vars == <<is_usb_device_configured, ep_setup, control_callbacks, inbuf, idx,
          inbuf_len, outbuf, outbuf_idx, pc, op, epOut, epIn, ctrlPending,
          ctrlReply, written, hostIn, got, hostSent, syncCalls,
          ctrlCount, workload, main_buf, main_i, rxPackets, txPackets>>

configVars == <<is_usb_device_configured, ep_setup, control_callbacks>>
inVars == <<inbuf, idx, inbuf_len>>
outVars == <<outbuf, outbuf_idx>>
ctrlVars == <<ctrlPending, ctrlReply, ctrlCount>>
mainVars == <<main_buf, main_i, rxPackets, txPackets>>

NoPacket == <<-1>>
NoRequest == [kind |-> "none"]
NoReply == [req |-> NoRequest, called |-> FALSE, result |-> USBD_REQ_NEXT_CALLBACK]

Min(a, b) == IF a < b THEN a ELSE b

\* a & b on naturals
RECURSIVE BitAnd(_, _)
BitAnd(a, b) ==
    IF a = 0 \/ b = 0 THEN 0
    ELSE (a % 2) * (b % 2) + 2 * BitAnd(a \div 2, b \div 2)

\* a | b on naturals
BitOr(a, b) == a + b - BitAnd(a, b)

\* the conversion of an int to uint8_t
Uint8(c) == c % 256

Zeros(n) == [i \in 1..n |-> 0]

(***************************************************************************)
(* The application and the host: what they may do in a run.                *)
(* The application is not part of the repository; it calls the stream API  *)
(* in any order, within the budget of the run's workload: a writer (sfputc, *)
(* sfsync), a reader (sfgetc), an echo (every byte read is written), a      *)
(* short mix of all calls, and a short reader whose host also issues        *)
(* control requests.                                                        *)
(***************************************************************************)
Workloads == {[app |-> a, len |-> 0] : a \in {"writer", "reader", "echo", "mixed", "control"}}

PutcBudget ==
    CASE workload.app = "writer" -> MaxPutc
      [] workload.app \in {"reader", "control"} -> 0
      [] workload.app = "echo" -> MaxGetc
      [] workload.app = "mixed" -> MaxMixed
      [] OTHER -> workload.len

GetcBudget ==
    CASE workload.app = "writer" -> 0
      [] workload.app \in {"reader", "echo"} -> MaxGetc
      [] workload.app \in {"mixed", "control"} -> MaxMixed
      [] OTHER -> workload.len

HostPacketBudget ==
    CASE workload.app \in {"reader", "echo"} -> MaxHostPackets
      [] workload.app \in {"mixed", "control"} -> MaxMixed
      [] workload.app = "main" -> MaxHostPackets
      [] OTHER -> 0

CtrlBudget == IF workload.app = "control" THEN MaxCtrlRequests ELSE 0

IsLoopback == workload.app = "loopback"

\* an echo run passes every byte it reads to sfputc before it reads the next;
\* a loopback run writes workload.len bytes, calls sfsync, then reads them back
MayPutc ==
    /\ Len(written) < PutcBudget
    /\ workload.app = "echo" => Len(written) < Len(got)
    /\ IsLoopback => syncCalls = 0

MaySync ==
    /\ syncCalls < MaxSync
    /\ workload.app \notin {"reader", "echo", "control"}
    /\ IsLoopback => Len(written) = workload.len

MayGetc ==
    /\ Len(got) < GetcBudget
    /\ workload.app = "echo" => Len(got) = Len(written)
    /\ IsLoopback => syncCalls = 1

\* the n-th character (n = 0, 1, ...) the application passes to sfputc: an int,
\* which need not fit a byte (the first one is one of two); an echo run passes
\* the n-th byte it has read
AppChars(n) ==
    IF workload.app = "echo" THEN {got[i] : i \in {n + 1} \cap DOMAIN got}
    ELSE {48 + 5 * n} \cup (IF n = 0 THEN {511} ELSE {})

\* the lengths of the byte sequences of the loopback runs
LoopbackLens ==
    {0, 1, USB_CDCACM_PACKET_SIZE - 2, USB_CDCACM_PACKET_SIZE - 1, USB_CDCACM_PACKET_SIZE}

\* the m-th byte (m = 0, 1, ...) the host sends: 0x61, 0x62, 0x63, ...
HostByte(m) == (97 + m) % 256

HostPacket(first, len) == [i \in 1..len |-> HostByte(first + i - 1)]

HostPacketLens == (0..MaxShortLen) \cup {USB_CDCACM_PACKET_SIZE - 1, USB_CDCACM_PACKET_SIZE}

\* control requests the host may issue: GET_DESCRIPTOR(report) to interface 0,
\* and the class request SET_LINE_CODING
CtrlRequests ==
    { [kind |-> "request", bmRequestType |-> 129, bRequest |-> 6],
      [kind |-> "request", bmRequestType |-> 33, bRequest |-> 32] }

(***************************************************************************)
(* usb-cdc-acm.c: enumeration glue                                         *)
(***************************************************************************)
\* the "#if 0" block is compiled out: no request is recognised
usbd_cdcacm_control_callback(req) == USBD_REQ_HANDLED

\* is_usb_device_configured = ! is_usb_device_configured;
configured_after_set_config_toggled(flag) == ~flag

\* is_usb_device_configured = true;
configured_after_set_config(flag) == TRUE

\* the body of the callback with the flag assignment moved to the front
set_config_statements_flag_first ==
    << [stmt |-> "is_usb_device_configured = true"],
       [stmt |-> "usbd_ep_setup",
        addr |-> USB_CDCACM_COMMUNICATION_IN_ENDPOINT_ADDRESS,
        type |-> USB_ENDPOINT_ATTR_INTERRUPT, max_size |-> USB_CDCACM_PACKET_SIZE],
       [stmt |-> "usbd_ep_setup",
        addr |-> USB_CDCACM_DATA_IN_ENDPOINT_ADDRESS,
        type |-> USB_ENDPOINT_ATTR_BULK, max_size |-> USB_CDCACM_PACKET_SIZE],
       [stmt |-> "usbd_ep_setup",
        addr |-> USB_CDCACM_DATA_OUT_ENDPOINT_ADDRESS,
        type |-> USB_ENDPOINT_ATTR_BULK, max_size |-> USB_CDCACM_PACKET_SIZE],
       [stmt |-> "usbd_register_control_callback",
        type |-> BitOr(USB_REQ_TYPE_STANDARD, USB_REQ_TYPE_INTERFACE),
        type_mask |-> BitOr(USB_REQ_TYPE_TYPE, USB_REQ_TYPE_RECIPIENT),
        callback |-> "usbd_cdcacm_control_callback"] >>

\* the body of usbd_cdcacm_set_config_callback, statement by statement
set_config_statements ==
    << [stmt |-> "usbd_ep_setup",
        addr |-> USB_CDCACM_COMMUNICATION_IN_ENDPOINT_ADDRESS,
        type |-> USB_ENDPOINT_ATTR_INTERRUPT, max_size |-> USB_CDCACM_PACKET_SIZE],
       [stmt |-> "usbd_ep_setup",
        addr |-> USB_CDCACM_DATA_IN_ENDPOINT_ADDRESS,
        type |-> USB_ENDPOINT_ATTR_BULK, max_size |-> USB_CDCACM_PACKET_SIZE],
       [stmt |-> "usbd_ep_setup",
        addr |-> USB_CDCACM_DATA_OUT_ENDPOINT_ADDRESS,
        type |-> USB_ENDPOINT_ATTR_BULK, max_size |-> USB_CDCACM_PACKET_SIZE],
       [stmt |-> "usbd_register_control_callback",
        type |-> BitOr(USB_REQ_TYPE_STANDARD, USB_REQ_TYPE_INTERFACE),
        type_mask |-> BitOr(USB_REQ_TYPE_TYPE, USB_REQ_TYPE_RECIPIENT),
        callback |-> "usbd_cdcacm_control_callback"],
       [stmt |-> "is_usb_device_configured = true"] >>

\* the configuration state the callback works on
ConfigState ==
    [ configured |-> is_usb_device_configured,
      ep_setup |-> ep_setup,
      control_callbacks |-> control_callbacks ]

\* the effect of one statement of the callback
ExecuteStatement(s, st) ==
    CASE st.stmt = "usbd_ep_setup" ->
           [s EXCEPT !.ep_setup =
              @ \cup {[addr |-> st.addr, type |-> st.type, max_size |-> st.max_size]}]
      [] st.stmt = "usbd_register_control_callback" ->
           [s EXCEPT !.control_callbacks =
              @ \cup {[type |-> st.type, type_mask |-> st.type_mask,
                       callback |-> st.callback]}]
      [] st.stmt = "is_usb_device_configured = true" ->
           [s EXCEPT !.configured = configured_after_set_config(@)]

\* the states the callback passes through, entered in state s: s itself, then
\* the state after each statement
RECURSIVE ActivationStates(_, _)
ActivationStates(s, stmts) ==
    IF stmts = <<>> THEN <<s>>
    ELSE <<s>> \o ActivationStates(ExecuteStatement(s, Head(stmts)), Tail(stmts))

usbd_cdcacm_set_config_callback ==
    LET states == ActivationStates(ConfigState, set_config_statements)
        final == states[Len(states)]
    IN  /\ ep_setup' = final.ep_setup
        /\ control_callbacks' = final.control_callbacks
        /\ is_usb_device_configured' = final.configured

(***************************************************************************)
(* The driver primitives the code calls (libopencm3)                       *)
(***************************************************************************)
\* usbd_ep_write_packet(dev, addr, buf, len): zero when the endpoint still holds
\* the previous packet, else the packet is queued and len is returned; epIn is
\* the endpoint the host knows as bulk-IN, at the address its descriptor gives
usbd_ep_write_packet(addr, pkt) ==
    IF addr = BulkInDescriptor.bEndpointAddress /\ epIn = NoPacket
    THEN [ret |-> Len(pkt), ep |-> pkt, accepted |-> TRUE]
    ELSE [ret |-> 0, ep |-> epIn, accepted |-> FALSE]

\* usbd_ep_read_packet(dev, addr, buf, len): zero when no packet is waiting,
\* else the packet (at most len bytes of it) is copied to the start of buf;
\* epOut is the endpoint the host knows as bulk-OUT
usbd_ep_read_packet(addr, buf, len) ==
    IF addr # BulkOutDescriptor.bEndpointAddress \/ epOut = NoPacket
    THEN [ret |-> 0, buf |-> buf, ep |-> epOut]
    ELSE LET n == Min(Len(epOut), len)
         IN  [ret |-> n,
              buf |-> SubSeq(epOut, 1, n) \o SubSeq(buf, n + 1, Len(buf)),
              ep |-> NoPacket]

\* the registered handlers whose filter matches the request
MatchingCallbacks(req) ==
    { cb \in control_callbacks :
        BitAnd(req.bmRequestType, cb.type_mask) = cb.type }

\* usbd_poll(dev): services the pending control transfer, if any: runs the
\* set-configuration callback, or offers the request to the registered handler
\* whose filter matches it (ctrlReply records the handler's answer; a request no
\* handler answers USBD_REQ_HANDLED goes on to the driver's own handlers)
usbd_poll ==
    CASE ctrlPending.kind = "none" ->
           UNCHANGED <<configVars, ctrlPending, ctrlReply>>
      [] ctrlPending.kind = "set_configuration" ->
           /\ usbd_cdcacm_set_config_callback
           /\ ctrlPending' = NoRequest
           /\ ctrlReply' = NoReply
      [] ctrlPending.kind = "request" ->
           /\ UNCHANGED configVars
           /\ ctrlPending' = NoRequest
           /\ ctrlReply' =
                IF MatchingCallbacks(ctrlPending) # {}
                THEN [req |-> ctrlPending, called |-> TRUE,
                      result |-> usbd_cdcacm_control_callback(ctrlPending)]
                ELSE [req |-> ctrlPending, called |-> FALSE,
                      result |-> USBD_REQ_NEXT_CALLBACK]

(***************************************************************************)
(* vx-sf-arch.c: the stream transport                                      *)
(***************************************************************************)
\* buf[i] in C, i counted from 0; outside the array the value read is arbitrary
ReadByte(buf, i) ==
    IF i + 1 \in DOMAIN buf THEN {buf[i + 1]} ELSE {0, 255}

\* the endpoint sfgetc reads: usbd_ep_read_packet(usbd_dev, <this>, inbuf, sizeof inbuf)
sfgetc_endpoint == COMMON_USB_CDCACM_DATA_OUT_ENDPOINT_ADDRESS

\* usbd_ep_write_packet(usbd_dev, USB_CDCACM_COMMUNICATION_IN_ENDPOINT_ADDRESS, ...)
sfsync_endpoint_notification == USB_CDCACM_COMMUNICATION_IN_ENDPOINT_ADDRESS

\* the endpoint sfsync writes: usbd_ep_write_packet(usbd_dev, <this>, outbuf, outbuf_idx)
sfsync_endpoint == COMMON_USB_CDCACM_DATA_IN_ENDPOINT_ADDRESS

\* while (idx + 1 == inbuf_len)
sfgetc_exhausted_early(i, n) == i + 1 = n

\* while (idx > inbuf_len)
sfgetc_exhausted_gt(i, n) == i > n

\* while (idx == inbuf_len)
sfgetc_exhausted(i, n) == i = n

\* idx = 0; left out
sfgetc_rewind_missing(i) == i

\* idx = 0;
sfgetc_rewind(i) == 0

\* if (outbuf_idx == sizeof outbuf - 1)
sfputc_full_early(n) == n = OUTBUF_SIZE - 1

\* if (outbuf_idx == sizeof outbuf)
sfputc_full(n) == n = OUTBUF_SIZE

\* a single attempt, its result ignored
sfsync_retry_never(ret) == FALSE

\* while (!usbd_ep_write_packet(...))
sfsync_retry(ret) == ret = 0

\* sfgetc, entered with bytes left in inbuf: return inbuf[idx ++]
\* sfgetc, entered with inbuf exhausted: enter the loop
sfgetc ==
    /\ pc = "idle"
    /\ MayGetc
    /\ IF sfgetc_exhausted(idx, inbuf_len)
       THEN /\ pc' = "sfgetc_poll"
            /\ op' = "sfgetc"
            /\ UNCHANGED <<idx, got>>
       ELSE /\ \E b \in ReadByte(inbuf, idx) : got' = Append(got, b)
            /\ idx' = idx + 1
            /\ UNCHANGED <<pc, op>>
    /\ UNCHANGED <<configVars, inbuf, inbuf_len, outVars, epOut, epIn, ctrlVars,
                   written, hostIn, hostSent, syncCalls, workload, mainVars>>

\* usbd_poll(usbd_dev) in sfgetc's loop
sfgetc_poll ==
    /\ pc = "sfgetc_poll"
    /\ usbd_poll
    /\ pc' = "sfgetc_read"
    /\ UNCHANGED <<inVars, outVars, op, epOut, epIn, ctrlCount, written, hostIn,
                   got, hostSent, syncCalls, workload, mainVars>>

\* idx = 0; inbuf_len = usbd_ep_read_packet(...); the loop test; return inbuf[idx ++]
sfgetc_read ==
    /\ pc = "sfgetc_read"
    /\ LET r == usbd_ep_read_packet(sfgetc_endpoint, inbuf, INBUF_SIZE)
       IN  /\ inbuf' = r.buf
           /\ inbuf_len' = r.ret
           /\ epOut' = r.ep
           /\ IF sfgetc_exhausted(sfgetc_rewind(idx), r.ret)
              THEN /\ idx' = sfgetc_rewind(idx)
                   /\ pc' = "sfgetc_poll"
                   /\ UNCHANGED <<got, op>>
              ELSE /\ \E b \in ReadByte(r.buf, sfgetc_rewind(idx)) : got' = Append(got, b)
                   /\ idx' = sfgetc_rewind(idx) + 1
                   /\ pc' = "idle"
                   /\ op' = "none"
    /\ UNCHANGED <<configVars, outVars, epIn, ctrlVars, written, hostIn,
                   hostSent, syncCalls, workload, mainVars>>

\* sfputc(c): outbuf[outbuf_idx ++] = c; if (outbuf_idx == sizeof outbuf) sfsync();
sfputc(c) ==
    /\ pc = "idle"
    /\ MayPutc
    /\ outbuf' = IF outbuf_idx + 1 \in DOMAIN outbuf
                 THEN [outbuf EXCEPT ![outbuf_idx + 1] = Uint8(c)]
                 ELSE outbuf
    /\ outbuf_idx' = outbuf_idx + 1
    /\ written' = Append(written, Uint8(c))
    /\ IF sfputc_full(outbuf_idx + 1)
       THEN pc' = "sfsync_write" /\ op' = "sfputc"
       ELSE UNCHANGED <<pc, op>>
    /\ UNCHANGED <<configVars, inVars, epOut, epIn, ctrlVars, hostIn, got,
                   hostSent, syncCalls, workload, mainVars>>

\* sfsync() that also throws away what is left in inbuf: idx = inbuf_len;
sfsync_discards_input ==
    /\ pc = "idle"
    /\ MaySync
    /\ pc' = "sfsync_write"
    /\ op' = "sfsync"
    /\ syncCalls' = syncCalls + 1
    /\ idx' = inbuf_len
    /\ UNCHANGED <<configVars, inbuf, inbuf_len, outVars, epOut, epIn, ctrlVars,
                   written, hostIn, got, hostSent, workload, mainVars>>

\* the application calls sfsync()
sfsync ==
    /\ pc = "idle"
    /\ MaySync
    /\ pc' = "sfsync_write"
    /\ op' = "sfsync"
    /\ syncCalls' = syncCalls + 1
    /\ UNCHANGED <<configVars, inVars, outVars, epOut, epIn, ctrlVars, written,
                   hostIn, got, hostSent, workload, mainVars>>

\* do { n = usbd_ep_write_packet(...); outbuf_idx = 0; } while (!n);
sfsync_write_resets_on_reject ==
    /\ pc = "sfsync_write"
    /\ LET r == usbd_ep_write_packet(sfsync_endpoint, SubSeq(outbuf, 1, outbuf_idx))
       IN  /\ epIn' = r.ep
           /\ outbuf_idx' = 0
           /\ IF sfsync_retry(r.ret)
              THEN /\ pc' = "sfsync_poll"
                   /\ UNCHANGED op
              ELSE /\ pc' = "idle"
                   /\ op' = "none"
    /\ UNCHANGED <<configVars, inVars, outbuf, epOut, ctrlVars, written, hostIn,
                   got, hostSent, syncCalls, workload, mainVars>>

\* while (!usbd_ep_write_packet(dev, IN, outbuf, outbuf_idx)) ...; outbuf_idx = 0;
sfsync_write ==
    /\ pc = "sfsync_write"
    /\ LET r == usbd_ep_write_packet(sfsync_endpoint, SubSeq(outbuf, 1, outbuf_idx))
       IN  /\ epIn' = r.ep
           /\ IF sfsync_retry(r.ret)
              THEN /\ pc' = "sfsync_poll"
                   /\ UNCHANGED <<outbuf_idx, op>>
              ELSE /\ outbuf_idx' = 0
                   /\ pc' = "idle"
                   /\ op' = "none"
    /\ UNCHANGED <<configVars, inVars, outbuf, epOut, ctrlVars, written, hostIn,
                   got, hostSent, syncCalls, workload, mainVars>>

\* usbd_poll(usbd_dev) in sfsync's loop
sfsync_poll ==
    /\ pc = "sfsync_poll"
    /\ usbd_poll
    /\ pc' = "sfsync_write"
    /\ UNCHANGED <<inVars, outVars, op, epOut, epIn, ctrlCount, written, hostIn,
                   got, hostSent, syncCalls, workload, mainVars>>

(***************************************************************************)
(* usb-cdc-acm.c: main and its loopback test loop                          *)
(***************************************************************************)
\* if (1 && (i = usbd_ep_read_packet(...)))
main_gate_open(flag) == TRUE

\* if (is_usb_device_configured && ...): the left operand of &&
main_gate(flag) == flag

\* usbd_ep_write_packet(usbd_dev, IN, buf, sizeof buf)
main_echo_packet_whole_buffer(buf, n) == buf

\* usbd_ep_write_packet(usbd_dev, IN, buf, i): the bytes offered
main_echo_packet(buf, n) == SubSeq(buf, 1, n)

\* main up to the loop: clocks, usbd_init, usbd_register_set_config_callback
main ==
    /\ pc = "idle"
    /\ workload.app = "main"
    /\ pc' = "main_test"
    /\ UNCHANGED <<configVars, inVars, outVars, op, epOut, epIn, ctrlVars, written,
                   hostIn, got, hostSent, syncCalls, workload, mainVars>>

\* the top of an iteration: int i = 0; and the test of the flag, which decides
\* whether the right operand of && (the read) is evaluated
main_test ==
    /\ pc = "main_test"
    /\ main_i' = 0
    /\ pc' = IF main_gate(is_usb_device_configured) THEN "main_read" ELSE "main_poll"
    /\ UNCHANGED <<configVars, inVars, outVars, op, epOut, epIn, ctrlVars, written,
                   hostIn, got, hostSent, syncCalls, workload, main_buf,
                   rxPackets, txPackets>>

\* i = usbd_ep_read_packet(usbd_dev, OUT, buf, sizeof buf), and the test of i
main_read ==
    /\ pc = "main_read"
    /\ LET r == usbd_ep_read_packet(USB_CDCACM_DATA_OUT_ENDPOINT_ADDRESS,
                                   main_buf, MAIN_BUF_SIZE)
       IN  /\ main_buf' = r.buf
           /\ main_i' = r.ret
           /\ epOut' = r.ep
           /\ rxPackets' = IF r.ep # epOut THEN Append(rxPackets, epOut) ELSE rxPackets
           /\ pc' = IF r.ret # 0 THEN "main_write_echo" ELSE "main_poll"
    /\ UNCHANGED <<configVars, inVars, outVars, op, epIn, ctrlVars, written,
                   hostIn, got, hostSent, syncCalls, workload, txPackets>>

\* while (!usbd_ep_write_packet(usbd_dev, IN, buf, i));
main_write_echo ==
    /\ pc = "main_write_echo"
    /\ LET r == usbd_ep_write_packet(USB_CDCACM_DATA_IN_ENDPOINT_ADDRESS,
                                    main_echo_packet(main_buf, main_i))
       IN  /\ epIn' = r.ep
           /\ IF r.ret = 0
              THEN UNCHANGED <<pc, txPackets>>
              ELSE /\ pc' = "main_write_prompt"
                   /\ txPackets' = Append(txPackets, r.ep)
    /\ UNCHANGED <<configVars, inVars, outVars, op, epOut, ctrlVars, written,
                   hostIn, got, hostSent, syncCalls, workload, main_buf, main_i,
                   rxPackets>>

\* while (!usbd_ep_write_packet(usbd_dev, IN, ">>>", 3));
main_write_prompt ==
    /\ pc = "main_write_prompt"
    /\ LET r == usbd_ep_write_packet(USB_CDCACM_DATA_IN_ENDPOINT_ADDRESS, MAIN_PROMPT)
       IN  /\ epIn' = r.ep
           /\ IF r.ret = 0
              THEN UNCHANGED <<pc, txPackets>>
              ELSE /\ pc' = "main_poll"
                   /\ txPackets' = Append(txPackets, r.ep)
    /\ UNCHANGED <<configVars, inVars, outVars, op, epOut, ctrlVars, written,
                   hostIn, got, hostSent, syncCalls, workload, main_buf, main_i,
                   rxPackets>>

\* usbd_poll(usbd_dev); and back to the top of the loop
main_poll ==
    /\ pc = "main_poll"
    /\ usbd_poll
    /\ pc' = "main_test"
    /\ UNCHANGED <<inVars, outVars, op, epOut, epIn, ctrlCount, written, hostIn,
                   got, hostSent, syncCalls, workload, mainVars>>

(***************************************************************************)
(* The host                                                                *)
(***************************************************************************)
\* SET_CONFIGURATION, serviced by the device's next usbd_poll; a host that
\* issues control requests may also repeat it
HostSetConfiguration ==
    /\ ctrlPending = NoRequest
    /\ ~is_usb_device_configured \/ ctrlCount < CtrlBudget
    /\ ctrlPending' = [kind |-> "set_configuration"]
    /\ ctrlCount' = IF is_usb_device_configured THEN ctrlCount + 1 ELSE ctrlCount
    /\ UNCHANGED <<configVars, inVars, outVars, pc, op, epOut, epIn, ctrlReply,
                   written, hostIn, got, hostSent, syncCalls, workload, mainVars>>

\* another control request on endpoint 0
HostControlRequest(req) ==
    /\ ctrlPending = NoRequest
    /\ ctrlCount < CtrlBudget
    /\ ctrlPending' = req
    /\ ctrlCount' = ctrlCount + 1
    /\ UNCHANGED <<configVars, inVars, outVars, pc, op, epOut, epIn, ctrlReply,
                   written, hostIn, got, hostSent, syncCalls, workload, mainVars>>

\* the host sends a packet of len bytes to bulk-OUT of the configured device
HostSend(len) ==
    /\ is_usb_device_configured
    /\ epOut = NoPacket
    /\ hostSent[1] < HostPacketBudget
    /\ epOut' = HostPacket(hostSent[2], len)
    /\ hostSent' = <<hostSent[1] + 1, hostSent[2] + len>>
    /\ UNCHANGED <<configVars, inVars, outVars, pc, op, epIn, ctrlVars, written,
                   hostIn, got, syncCalls, workload, mainVars>>

\* the host takes the packet waiting in bulk-IN of the configured device
HostTakeIn ==
    /\ is_usb_device_configured
    /\ epIn # NoPacket
    /\ hostIn' = hostIn \o epIn
    /\ epIn' = NoPacket
    /\ UNCHANGED <<configVars, inVars, outVars, pc, op, epOut, ctrlVars, written,
                   got, hostSent, syncCalls, workload, mainVars>>

\* a loopback host: the packet it takes from bulk-IN is the packet it sends to
\* bulk-OUT
HostLoopback ==
    /\ is_usb_device_configured
    /\ epIn # NoPacket
    /\ epOut = NoPacket
    /\ hostIn' = hostIn \o epIn
    /\ epOut' = epIn
    /\ epIn' = NoPacket
    /\ hostSent' = <<hostSent[1] + 1, hostSent[2] + Len(epIn)>>
    /\ UNCHANGED <<configVars, inVars, outVars, pc, op, ctrlVars, written, got,
                   syncCalls, workload, mainVars>>

(***************************************************************************)
(* Specification                                                           *)
(***************************************************************************)
InitDevice ==
    /\ is_usb_device_configured = FALSE
    /\ ep_setup = {}
    /\ control_callbacks = {}
    /\ inbuf = Zeros(INBUF_SIZE)
    /\ idx = 0
    /\ inbuf_len = 0
    /\ outbuf = Zeros(OUTBUF_SIZE)
    /\ outbuf_idx = 0
    /\ pc = "idle"
    /\ op = "none"
    /\ epOut = NoPacket
    /\ epIn = NoPacket
    /\ ctrlPending = NoRequest
    /\ ctrlReply = NoReply
    /\ written = <<>>
    /\ hostIn = <<>>
    /\ got = <<>>
    /\ hostSent = <<0, 0>>
    /\ syncCalls = 0
    /\ ctrlCount = 0
    /\ main_buf = Zeros(MAIN_BUF_SIZE)
    /\ main_i = 0
    /\ rxPackets = <<>>
    /\ txPackets = <<>>

Init ==
    /\ InitDevice
    /\ workload \in Workloads

DeviceStep ==
    \/ sfgetc_poll
    \/ sfgetc_read
    \/ sfsync_write
    \/ sfsync_poll

Next ==
    \/ sfgetc
    \/ \E c \in AppChars(Len(written)) : sfputc(c)
    \/ sfsync
    \/ sfgetc_poll
    \/ sfgetc_read
    \/ sfsync_write
    \/ sfsync_poll
    \/ HostSetConfiguration
    \/ \E req \in CtrlRequests : HostControlRequest(req)
    \/ \E len \in HostPacketLens : HostSend(len)
    \/ HostTakeIn

Spec == Init /\ [][Next]_vars

\* The processor keeps executing the call it is in; the host, once it can,
\* configures the device and collects the packet waiting in bulk-IN.
FairSpec ==
    /\ Spec
    /\ WF_vars(DeviceStep)
    /\ WF_vars(HostSetConfiguration)
    /\ WF_vars(HostTakeIn)

\* Loopback runs: the application writes a byte sequence, calls sfsync and reads
\* the sequence back, against a host that returns every packet it gets.
InitLoopback ==
    /\ InitDevice
    /\ workload \in {[app |-> "loopback", len |-> n] : n \in LoopbackLens}

AppStep ==
    \/ sfgetc
    \/ \E c \in AppChars(Len(written)) : sfputc(c)
    \/ sfsync

NextLoopback ==
    \/ sfgetc
    \/ \E c \in AppChars(Len(written)) : sfputc(c)
    \/ sfsync
    \/ sfgetc_poll
    \/ sfgetc_read
    \/ sfsync_write
    \/ sfsync_poll
    \/ HostSetConfiguration
    \/ HostLoopback

SpecLoopback ==
    /\ InitLoopback
    /\ [][NextLoopback]_vars
    /\ WF_vars(AppStep)
    /\ WF_vars(DeviceStep)
    /\ WF_vars(HostSetConfiguration)
    /\ WF_vars(HostLoopback)

\* The firmware as built: main runs its loopback test loop against a host
\* that configures the device, sends packets and collects what comes back.
InitMain ==
    /\ InitDevice
    /\ workload = [app |-> "main", len |-> 0]

MainStep ==
    \/ main
    \/ main_test
    \/ main_read
    \/ main_write_echo
    \/ main_write_prompt
    \/ main_poll

NextMain ==
    \/ main
    \/ main_test
    \/ main_read
    \/ main_write_echo
    \/ main_write_prompt
    \/ main_poll
    \/ HostSetConfiguration
    \/ \E len \in HostPacketLens : HostSend(len)
    \/ HostTakeIn

SpecMain ==
    /\ InitMain
    /\ [][NextMain]_vars
    /\ WF_vars(MainStep)
    /\ WF_vars(HostSetConfiguration)
    /\ WF_vars(HostTakeIn)

(***************************************************************************)
(* Properties                                                              *)
(***************************************************************************)
PACKET == USB_CDCACM_PACKET_SIZE

\* the bytes that sfputc has stored and no flush has handed over yet
Buffered == SubSeq(outbuf, 1, outbuf_idx)

\* the bytes that usbd_ep_read_packet has stored and sfgetc has not returned yet
Unread == SubSeq(inbuf, idx + 1, inbuf_len)

InSync == pc \in {"sfsync_write", "sfsync_poll"}
InGetc == pc \in {"sfgetc_poll", "sfgetc_read"}

\* C1: every packet handed to the bulk-IN endpoint is shorter than the
\* endpoint's max packet size (64): at most 63 bytes.
C1_PacketsAreShort == epIn # NoPacket => Len(epIn) < PACKET

\* a 63-byte packet is waiting in bulk-IN
C1_Witness == epIn # NoPacket /\ Len(epIn) = PACKET - 1

\* C2: the sfputc call that brings the unflushed count to 63 enters the flush
\* and returns only with one 63-byte packet (the 63 bytes written last) handed
\* to bulk-IN; an sfputc call that leaves the count below 63 returns at once,
\* with no endpoint write and no poll.
C2_AutoFlushAt63 ==
    [][ /\ written' # written =>
             IF outbuf_idx' = PACKET - 1
             THEN pc' = "sfsync_write" /\ op' = "sfputc"
             ELSE /\ pc' = "idle" /\ op' = "none"
                  /\ epIn' = epIn /\ epOut' = epOut
                  /\ configVars' = configVars /\ ctrlVars' = ctrlVars
        /\ (op = "sfputc" /\ op' # "sfputc") =>
             /\ epIn = NoPacket
             /\ epIn' = SubSeq(written, Len(written) - (PACKET - 2), Len(written))
             /\ Len(epIn') = PACKET - 1
             /\ outbuf_idx' = 0
        /\ (op = "sfputc" /\ epIn' # epIn /\ epIn' # NoPacket) => op' = "none"
      ]_vars

\* the 63rd sfputc call has returned: 63 bytes written, one 63-byte packet in
\* bulk-IN, nothing left unflushed
C2_Witness ==
    /\ Len(written) = PACKET - 1
    /\ pc = "idle"
    /\ syncCalls = 0
    /\ outbuf_idx = 0
    /\ epIn = written

\* C3: sfgetc returns the bytes of the packets received on bulk-OUT, each
\* once and in order: the bytes returned so far, then the bytes still unread in
\* inbuf, then the packet still waiting in the endpoint, are the bytes the host
\* has sent, whatever the packets' lengths.
C3_StreamOrder ==
    got \o Unread \o (IF epOut = NoPacket THEN <<>> ELSE epOut)
      = HostPacket(0, hostSent[2])

\* three packets, one of them empty, more than 64 bytes in all, all returned
C3_Witness ==
    /\ hostSent[1] = 3
    /\ Len(got) > PACKET
    /\ Len(got) = hostSent[2]
    /\ hostSent[2] < 2 * (PACKET - 1)

\* C4: no endpoint read or write is attempted while the configured flag is
\* false.
C4_Gating ==
    [][ (pc \in {"sfgetc_read", "sfsync_write"} /\ pc' # pc)
          => is_usb_device_configured ]_vars

\* C5: a request the class handler does not implement (it implements none) is
\* answered USBD_REQ_NEXT_CALLBACK, never USBD_REQ_HANDLED.
C5_UnrecognizedNotHandled ==
    ctrlReply.called => ctrlReply.result = USBD_REQ_NEXT_CALLBACK

\* C6: each attempt of sfsync offers exactly the buffered bytes (zero of them
\* too); a rejected attempt changes nothing and is followed by a poll; sfsync
\* returns only from an accepted attempt, with the write cursor at zero.
C6_SyncContract ==
    [][ /\ (pc = "sfsync_write" /\ pc' # pc) =>
             /\ IF epIn = NoPacket
                THEN epIn' = Buffered
                ELSE epIn' = epIn /\ pc' = "sfsync_poll"
             /\ outbuf' = outbuf
             /\ pc' = "idle" => epIn = NoPacket /\ outbuf_idx' = 0
             /\ pc' # "idle" => outbuf_idx' = outbuf_idx
        /\ (pc = "sfsync_poll" /\ pc' # pc) =>
             /\ pc' = "sfsync_write"
             /\ outbuf' = outbuf /\ outbuf_idx' = outbuf_idx /\ epIn' = epIn
        /\ (InSync /\ pc' = "idle") => pc = "sfsync_write"
      ]_vars

\* an explicit sfsync has returned after handing over a partly filled buffer
C6_Witness ==
    /\ syncCalls = 1
    /\ pc = "idle"
    /\ outbuf_idx = 0
    /\ epIn # NoPacket
    /\ Len(epIn) \in 1..(PACKET - 2)
    /\ epIn = written

\* sfsync, called with nothing buffered, has had a zero-length packet accepted
\* and is polling again
C6_ZeroLengthAttempt ==
    /\ pc = "sfsync_poll"
    /\ outbuf_idx = 0
    /\ epIn = <<>>

\* C7: every flush that is entered returns, whatever the buffered count.
C7_SyncReturns == InSync ~> (pc = "idle")

\* a flush entered with at least one byte buffered returns
C7_NonEmptySyncReturns == (InSync /\ outbuf_idx > 0) ~> (pc = "idle")

\* C8: in sfgetc's loop every receive attempt follows a poll; an attempt that
\* yields no byte (no packet, or an empty one) goes round again and returns
\* nothing; an attempt that yields a packet returns its first byte; and once a
\* non-empty packet is waiting the call returns.
C8_GetcBlocksUntilData ==
    /\ [][ /\ (pc' = "sfgetc_read" /\ pc' # pc) => pc = "sfgetc_poll"
           /\ (pc = "sfgetc_read" /\ pc' # pc) =>
                IF epOut = NoPacket \/ epOut = <<>>
                THEN pc' = "sfgetc_poll" /\ got' = got
                ELSE pc' = "idle" /\ got' = Append(got, epOut[1])
           /\ (InGetc /\ pc' = "idle") => pc = "sfgetc_read"
         ]_vars
    /\ (InGetc /\ epOut # NoPacket /\ epOut # <<>>) ~> (pc = "idle")

\* sfgetc has returned the first byte of a 3-byte packet that came after an
\* empty one
C8_Witness ==
    /\ hostSent = <<2, 3>>
    /\ got = <<HostByte(0)>>
    /\ inbuf_len = 3
    /\ idx = 1
    /\ pc = "idle"

\* the loopback run is over: the sequence is written, sfsync has returned, and
\* as many bytes as were written have been read
LoopbackDone ==
    /\ Len(written) = workload.len
    /\ syncCalls = 1
    /\ pc = "idle"
    /\ Len(got) = workload.len

\* C9: in a loopback run the whole sequence is written and then read back:
\* the bytes read come to equal the bytes written.
C9_RoundTrip == <>(Len(written) = workload.len /\ got = written)

\* a loopback run whose final sfsync has at least one byte to flush ends with
\* the bytes read equal to the bytes written
C9_RoundTripWithFinalBytes ==
    (workload.len % (PACKET - 1) # 0) => <>(LoopbackDone /\ got = written)

\* what a loopback run has read is a prefix of what it has written, and the
\* bytes are conserved on the way round
C9_NothingLostOnTheWay ==
    written = got \o Unread \o (IF epOut = NoPacket THEN <<>> ELSE epOut)
                \o (IF epIn = NoPacket THEN <<>> ELSE epIn) \o Buffered

\* C10: idx <= inbuf_len <= 64 and outbuf_idx <= 63 in every state, and the
\* cursor is inside outbuf wherever sfputc can store through it.
C10_CursorsInBounds ==
    /\ 0 <= idx /\ idx <= inbuf_len /\ inbuf_len <= PACKET
    /\ Len(inbuf) = PACKET
    /\ 0 <= outbuf_idx /\ outbuf_idx <= PACKET - 1
    /\ Len(outbuf) = PACKET - 1
    /\ pc = "idle" => outbuf_idx < PACKET - 1

\* inside the flush loop with outbuf full, a full-size packet in inbuf
C10_Witness ==
    /\ InSync
    /\ outbuf_idx = PACKET - 1
    /\ inbuf_len = PACKET
    /\ idx = PACKET - 1

\* C11: the configured flag is false at power-on, is changed only by the
\* set-configuration callback (run by a poll that services SET_CONFIGURATION),
\* and once true stays true.
C11_ConfiguredLifecycle ==
    /\ ~is_usb_device_configured
    /\ [][ /\ is_usb_device_configured => is_usb_device_configured'
           /\ is_usb_device_configured' # is_usb_device_configured =>
                /\ ctrlPending.kind = "set_configuration"
                /\ pc \in {"sfgetc_poll", "sfsync_poll", "main_poll"}
         ]_vars

\* the configured device has serviced a second SET_CONFIGURATION, between
\* stream reads
C11_Witness ==
    /\ is_usb_device_configured
    /\ ctrlCount = 1
    /\ ctrlPending = NoRequest
    /\ ctrlReply = NoReply
    /\ Len(got) > 0

\* the three endpoints of the descriptors are set up and the class handler is
\* registered
Activated(s) ==
    /\ \A d \in {NotificationDescriptor, BulkInDescriptor, BulkOutDescriptor} :
          \E ep \in s.ep_setup : ep.addr = d.bEndpointAddress
    /\ \E cb \in s.control_callbacks : cb.callback = "usbd_cdcacm_control_callback"

\* C12: wherever the flag is true, in the current state and in every state the
\* callback passes through when it runs from here, the interrupt endpoint and
\* both bulk endpoints are set up and the class handler is registered.
C12_FlagSetLast ==
    LET states == ActivationStates(ConfigState, set_config_statements)
    IN  \A k \in DOMAIN states : states[k].configured => Activated(states[k])

\* configured, activated, and a packet has come in over bulk-OUT
C12_Witness ==
    /\ is_usb_device_configured
    /\ Activated(ConfigState)
    /\ hostSent[1] > 0

\* the interface descriptors of the configuration, in the order declared
Interfaces == usb_config_descriptor.interface

\* the endpoint descriptors of all interfaces
EndpointDescriptors ==
    UNION { { Interfaces[n].altsetting.endpoint[e] :
                e \in DOMAIN Interfaces[n].altsetting.endpoint } :
            n \in DOMAIN Interfaces }

\* C13: the configuration declares exactly 2 interfaces, numbered 0
\* (Communications, the one that carries the functional descriptors) and 1
\* (Data); the Union descriptor names interface 0 as control and the Data
\* interface as subordinate; Call Management names the Data interface.
C13_DescriptorIntegrity ==
    /\ usb_config_descriptor.bNumInterfaces = 2
    /\ Len(Interfaces) = 2
    /\ Interfaces[1].altsetting = cdcacm_communications_interface
    /\ Interfaces[2].altsetting = cdcacm_data_interface
    /\ cdcacm_communications_interface.bInterfaceNumber = 0
    /\ cdcacm_data_interface.bInterfaceNumber = 1
    /\ cdcacm_communications_interface.extra.u.bControlInterface = 0
    /\ cdcacm_communications_interface.extra.u.bSubordinateInterface0
         = cdcacm_data_interface.bInterfaceNumber
    /\ cdcacm_communications_interface.extra.c.bDataInterface
         = cdcacm_data_interface.bInterfaceNumber
    /\ is_usb_device_configured =>
         Cardinality(ep_setup) = cdcacm_communications_interface.bNumEndpoints
                                 + cdcacm_data_interface.bNumEndpoints

\* the host has configured the device it found in these descriptors and has
\* moved serial data both ways over the Data interface's endpoints
C13_Witness ==
    /\ is_usb_device_configured
    /\ {ep.addr : ep \in ep_setup} = {d.bEndpointAddress : d \in EndpointDescriptors}
    /\ Len(hostIn) > 0
    /\ Len(got) > 0

\* what usbd_ep_setup is to be called with for an endpoint descriptor
SetupOf(d) ==
    [addr |-> d.bEndpointAddress, type |-> d.bmAttributes, max_size |-> d.wMaxPacketSize]

\* C14: the three endpoint descriptors have pairwise distinct addresses and
\* packet size 64; once configured, the endpoints set up are exactly the ones
\* declared (address, transfer type, packet size); and sfgetc reads the declared
\* bulk-OUT address, sfsync writes the declared bulk-IN address, with buffers
\* sized from the same packet size.
C14_EndpointConsistency ==
    /\ EndpointDescriptors = {NotificationDescriptor, BulkInDescriptor, BulkOutDescriptor}
    /\ Cardinality({d.bEndpointAddress : d \in EndpointDescriptors}) = 3
    /\ \A d \in EndpointDescriptors : d.wMaxPacketSize = 64
    /\ NotificationDescriptor.bmAttributes = USB_ENDPOINT_ATTR_INTERRUPT
    /\ BulkInDescriptor.bmAttributes = USB_ENDPOINT_ATTR_BULK
    /\ BulkOutDescriptor.bmAttributes = USB_ENDPOINT_ATTR_BULK
    /\ is_usb_device_configured => ep_setup = {SetupOf(d) : d \in EndpointDescriptors}
    /\ sfgetc_endpoint = BulkOutDescriptor.bEndpointAddress
    /\ sfsync_endpoint = BulkInDescriptor.bEndpointAddress
    /\ INBUF_SIZE = BulkOutDescriptor.wMaxPacketSize
    /\ OUTBUF_SIZE = BulkInDescriptor.wMaxPacketSize - 1
    /\ Len(inbuf) = INBUF_SIZE
    /\ epIn # NoPacket => Len(epIn) <= BulkInDescriptor.wMaxPacketSize

\* configured with three endpoints set up; the transport has had a packet
\* accepted by bulk-IN and has read a byte from bulk-OUT
C14_Witness ==
    /\ is_usb_device_configured
    /\ Cardinality(ep_setup) = 3
    /\ epIn # NoPacket
    /\ Len(epIn) > 0
    /\ Len(got) > 0

\* the bytes of the packets bulk-IN has accepted: the ones the host has taken,
\* then the one still waiting in the endpoint
Accepted == hostIn \o (IF epIn = NoPacket THEN <<>> ELSE epIn)

IsPrefix(p, q) == Len(p) <= Len(q) /\ p = SubSeq(q, 1, Len(p))

\* C15: the packets accepted by bulk-IN, followed by the unflushed bytes of
\* outbuf, are the bytes passed to sfputc, in order; a rejected write attempt
\* changes neither outbuf nor the write cursor nor the endpoint.
C15_WriteOrder ==
    /\ [](Accepted \o Buffered = written)
    /\ [][ (pc = "sfsync_write" /\ pc' # pc /\ epIn # NoPacket) =>
             /\ outbuf' = outbuf
             /\ outbuf_idx' = outbuf_idx
             /\ epIn' = epIn
             /\ pc' = "sfsync_poll"
         ]_vars

\* one byte was flushed and accepted, 63 more were written, and the flush of
\* those has just been rejected because the first packet is still waiting
C15_Witness ==
    /\ pc = "sfsync_poll"
    /\ Len(written) = PACKET
    /\ outbuf_idx = PACKET - 1
    /\ epIn = SubSeq(written, 1, 1)

\* C16: in main's loop the read of bulk-OUT and the two writes of bulk-IN are
\* reached only with the flag true; an iteration that finds the flag false goes
\* straight to the poll and leaves both endpoints as they are.
C16_MainGating ==
    /\ [](pc \in {"main_read", "main_write_echo", "main_write_prompt"}
            => is_usb_device_configured)
    /\ [][ (pc = "main_test" /\ ~is_usb_device_configured /\ pc' # pc) =>
             /\ pc' = "main_poll"
             /\ epOut' = epOut /\ epIn' = epIn
             /\ rxPackets' = rxPackets /\ txPackets' = txPackets
         ]_vars

\* an iteration of the unconfigured device has reached its poll, with
\* SET_CONFIGURATION waiting to be serviced
C16_Witness ==
    /\ pc = "main_poll"
    /\ ~is_usb_device_configured
    /\ ctrlPending.kind = "set_configuration"
    /\ rxPackets = <<>> /\ txPackets = <<>>

\* what main is to write for the packets it has read: each non-empty packet,
\* followed by ">>>"
RECURSIVE Echo(_)
Echo(packets) ==
    IF packets = <<>> THEN <<>>
    ELSE (IF Head(packets) = <<>> THEN <<>> ELSE <<Head(packets), MAIN_PROMPT>>)
         \o Echo(Tail(packets))

RECURSIVE Flatten(_)
Flatten(packets) ==
    IF packets = <<>> THEN <<>> ELSE Head(packets) \o Flatten(Tail(packets))

\* C17: the packets main reads are the packets the host sent; the packets
\* bulk-IN accepts from main are, for each non-empty packet read and in the
\* order read, that packet and then ">>>"; a packet is read only when the echo
\* of the ones before it is complete; and an echo once begun is completed.
C17_MainEchoOrder ==
    /\ [](Flatten(rxPackets) \o (IF epOut = NoPacket THEN <<>> ELSE epOut)
            = HostPacket(0, hostSent[2]))
    /\ [](IsPrefix(txPackets, Echo(rxPackets)))
    /\ [](pc = "main_write_echo" =>
            /\ rxPackets # <<>>
            /\ main_i = Len(rxPackets[Len(rxPackets)])
            /\ txPackets \o <<rxPackets[Len(rxPackets)], MAIN_PROMPT>> = Echo(rxPackets))
    /\ [](pc = "main_write_prompt" => txPackets \o <<MAIN_PROMPT>> = Echo(rxPackets))
    /\ [][ rxPackets' # rxPackets => txPackets = Echo(rxPackets) ]_vars
    /\ [][ (pc \in {"main_write_echo", "main_write_prompt"} /\ epIn # NoPacket)
             => (pc' = pc /\ txPackets' = txPackets /\ rxPackets' = rxPackets) ]_vars
    /\ (pc = "main_write_echo") ~> (pc = "main_poll" /\ txPackets = Echo(rxPackets))

\* main has read a 64-byte packet, an empty one and a short one, and has
\* echoed the two non-empty ones, each followed by ">>>"
C17_Witness ==
    /\ pc = "main_poll"
    /\ Len(rxPackets) = 3
    /\ Len(rxPackets[1]) = PACKET
    /\ rxPackets[2] = <<>>
    /\ Len(rxPackets[3]) = 2
    /\ txPackets = <<rxPackets[1], MAIN_PROMPT, rxPackets[3], MAIN_PROMPT>>

\* a step of the read path: sfgetc is entered, or is running
GetcStep == \/ InGetc /\ pc' # pc
            \/ pc = "idle" /\ (pc' = "sfgetc_poll" \/ got' # got)

\* a step of the write path: sfputc or sfsync is entered, or the flush is running
PutcSyncStep == \/ InSync /\ pc' # pc
                \/ pc = "idle" /\ (pc' = "sfsync_write" \/ written' # written)

\* C18: a step of sfgetc leaves outbuf, the write cursor and bulk-IN as they
\* are; a step of sfputc or sfsync leaves inbuf, the read cursor, the valid
\* length and bulk-OUT as they are; so with reads and writes interleaved the
\* bytes read are still the host's stream and the bytes accepted by bulk-IN
\* are still the written stream.
C18_Frame ==
    /\ [][ /\ GetcStep =>
                /\ outbuf' = outbuf /\ outbuf_idx' = outbuf_idx
                /\ epIn' = epIn /\ written' = written /\ hostIn' = hostIn
           /\ PutcSyncStep =>
                /\ inbuf' = inbuf /\ idx' = idx /\ inbuf_len' = inbuf_len
                /\ epOut' = epOut /\ got' = got /\ hostSent' = hostSent
         ]_vars
    /\ [](IsPrefix(got, HostPacket(0, hostSent[2])))
    /\ [](IsPrefix(Accepted, written))

\* reads and writes interleaved: a byte was written and flushed, a byte was
\* read with more left in inbuf, a second byte was written, and sfgetc is
\* called again with that byte still unflushed
C18_Witness ==
    /\ workload.app = "mixed"
    /\ Len(written) = 2
    /\ outbuf_idx = 1
    /\ syncCalls = 1
    /\ Len(got) = 2
    /\ idx = 2
    /\ inbuf_len = 3

====
